---- MODULE Spec2Model ----
(***************************************************************************)
(* img-prefix: a React application (src/src/App.tsx) that sorts the picked *)
(* image files in natural order, stamps each with a sequential label and   *)
(* keeps the results as previews.  Strings are sequences of one-character  *)
(* strings; an object URL is named by the call that created it; array      *)
(* positions are 0-based as in the source and are shifted by one when a    *)
(* TLA+ sequence is indexed.                                               *)
(***************************************************************************)
EXTENDS Integers, Sequences, FiniteSets, TLC

\* ------------------------------------------------------------------ bounds
MaxRuns == 2        \* renderAll invocations followed in one behaviour
MaxNameLen == 3     \* length of the names handed to the comparator
MaxOrderLen == 2    \* length of the names compared three at a time

\* ------------------------------------------------------------- characters
Digits == <<"0", "1", "2", "3", "4", "5", "6", "7", "8", "9">>

IsDigit(c) == \E k \in 1..10 : Digits[k] = c

DigitVal(c) == (CHOOSE k \in 1..10 : Digits[k] = c) - 1

\* Number.POSITIVE_INFINITY, the numeric part of a non-digit token.  It is
\* represented by the largest integer: every digit run of the model is
\* smaller, and Infinity - n keeps the sign it has in the source.
POSITIVE_INFINITY == 2147483647

\* Number($1) for a run of decimal digits.
RECURSIVE Number(_)
Number(run) ==
    IF run = <<>> THEN 0
    ELSE 10 * Number(SubSeq(run, 1, Len(run) - 1)) + DigitVal(run[Len(run)])

\* Length of the longest prefix of s whose characters are all digits (d =
\* TRUE) or all non-digits (d = FALSE): one match of /(\d+)|(\D+)/g.
RECURSIVE RunLen(_, _)
RunLen(s, d) ==
    IF s = <<>> \/ IsDigit(Head(s)) # d THEN 0
    ELSE 1 + RunLen(Tail(s), d)

\* The token list a.replace(/(\d+)|(\D+)/g, ...) pushes: one pair
\* <<number, string>> per run.
RECURSIVE Tokens(_)
Tokens(s) ==
    IF s = <<>> THEN <<>>
    ELSE LET d == IsDigit(Head(s))
             n == RunLen(s, d)
             run == SubSeq(s, 1, n)
             tok == IF d THEN <<Number(run), <<>>>>
                         ELSE <<POSITIVE_INFINITY, run>>
         IN  <<tok>> \o Tokens(SubSeq(s, n + 1, Len(s)))

\* Collation weight of the characters of the model in the "ja" locale:
\* punctuation, then digits, then letters in alphabetical order.  "U+212A" is
\* the one character KELVIN SIGN, canonically equivalent to "K": the two
\* collate as equal.
CollationRank(c) ==
    CASE c = "-" -> 1
      [] c = "." -> 2
      [] IsDigit(c) -> 3 + DigitVal(c)
      [] c = "a" -> 20
      [] c = "g" -> 21
      [] c = "i" -> 22
      [] c = "m" -> 23
      [] c = "n" -> 24
      [] c = "p" -> 25
      [] c = "K" -> 26
      [] c = "U+212A" -> 26
      [] OTHER -> 30

\* aStr.localeCompare(bStr, "ja") on the characters of the model: -1, 0, 1.
RECURSIVE localeCompare(_, _)
localeCompare(x, y) ==
    IF x = <<>> /\ y = <<>> THEN 0
    ELSE IF x = <<>> THEN -1
    ELSE IF y = <<>> THEN 1
    ELSE IF CollationRank(Head(x)) < CollationRank(Head(y)) THEN -1
    ELSE IF CollationRank(Head(x)) > CollationRank(Head(y)) THEN 1
    ELSE localeCompare(Tail(x), Tail(y))

\* The while loop of naturalCompare over the two token lists.
RECURSIVE CompareTokens(_, _)
CompareTokens(ax, bx) ==
    IF ax = <<>> \/ bx = <<>> THEN Len(ax) - Len(bx)
    ELSE LET an == Head(ax)
             bn == Head(bx)
         IN  IF an[1] # bn[1] THEN an[1] - bn[1]
             ELSE IF an[2] # bn[2] THEN localeCompare(an[2], bn[2])
             ELSE CompareTokens(Tail(ax), Tail(bx))

\* A plain string comparison in place of the token comparison.
naturalCompareLexical(a, b) == localeCompare(a, b)

naturalCompare(a, b) == CompareTokens(Tokens(a), Tokens(b))

\* arr.sort(cmp): Array.prototype.sort is stable; an element goes after
\* every element already placed that does not compare greater than it.
RECURSIVE InsertSorted(_, _)
InsertSorted(sorted, e) ==
    IF sorted = <<>> THEN <<e>>
    ELSE LET last == sorted[Len(sorted)]
         IN  IF naturalCompare(last, e) <= 0 THEN Append(sorted, e)
             ELSE Append(InsertSorted(SubSeq(sorted, 1, Len(sorted) - 1), e), last)

RECURSIVE SortPrefix(_, _)
SortPrefix(arr, n) ==
    IF n = 0 THEN <<>> ELSE InsertSorted(SortPrefix(arr, n - 1), arr[n])

\* useMemo: a sorted copy of files.
sortedFiles(fs) == SortPrefix(fs, Len(fs))

\* String(n) for an integer n.
RECURSIVE NatString(_)
NatString(n) ==
    IF n < 10 THEN <<Digits[n + 1]>>
    ELSE Append(NatString(n \div 10), Digits[(n % 10) + 1])

String(n) == IF n < 0 THEN <<"-">> \o NatString(-n) ELSE NatString(n)

\* "0".repeat(k)
Zeros(k) == [j \in 1..k |-> "0"]

padNumber(n, digits) ==
    LET s == String(n)
    IN  IF digits <= Len(s) THEN s ELSE Zeros(digits - Len(s)) \o s

\* ------------------------------------------------------------ input sets
\* File names the user can pick: "a2.p" and "a10.p".
FileNames == { <<"a", "2", ".", "p">>, <<"a", "1", "0", ".", "p">> }

\* e.target.files: one file, or both files in the order the comparator has
\* to reverse.
Picks ==
    { <<<<"a", "2", ".", "p">>>>,
      <<<<"a", "1", "0", ".", "p">>, <<"a", "2", ".", "p">>>> }

\* Values typed into the start-number field.
StartNumberInputs == {-1}

\* Outcomes of the two awaits of one loop iteration.
DecodeOutcomes == {"load", "error", "noctx"}
EncodeOutcomes == {"blob", "null"}

\* Characters of the names handed to naturalCompare on its own.
CompareAlphabet == {"a", ".", "1", "2"}

\* Characters of the names compared three at a time.
OrderAlphabet == {"K", "U+212A", "1", "2"}

OrderNames == UNION { [1..n -> OrderAlphabet] : n \in 1..MaxOrderLen }

CompareNames == UNION { [1..n -> CompareAlphabet] : n \in 1..MaxNameLen }

\* ------------------------------------------------------------------ state
VARIABLES
    files,        \* useState<File[]>: the names of the picked files
    previews,     \* useState<PreviewItem[]>
    isRendering,  \* useState<boolean>
    progress,     \* useState<ProgressState>
    prefix,       \* useState<string>
    startNumber,  \* useState<number>
    digits,       \* useState<number>
    runs,         \* every renderAll invocation so far, with its closure
    urls,         \* every object URL created so far -> times revoked
    outputFormat, \* useState<OutputFormat>
    zip,          \* the entries of the last archive downloadZip built
    cmp           \* one call of naturalCompare: arguments and result

vars == <<files, previews, isRendering, progress, prefix, startNumber, digits,
          runs, urls, outputFormat, zip, cmp>>

settings == <<prefix, startNumber, digits>>

NoCmp == [a |-> <<>>, b |-> <<>>, result |-> 0, called |-> FALSE]

InitApp ==
    /\ files = <<>>
    /\ previews = <<>>
    /\ isRendering = FALSE
    /\ progress = [done |-> 0, total |-> 0]
    /\ prefix = <<"E", "P", " ">>
    /\ startNumber = 1
    /\ digits = 2
    /\ runs = <<>>
    /\ urls = <<>>
    /\ outputFormat = "png"
    /\ zip = <<>>

Init == InitApp /\ cmp = NoCmp

\* -------------------------------------------------------------- object URLs
\* An object URL is named by the run that created it, the loop index and the
\* call site; the empty string is the empty tuple.
NoUrl == <<>>

\* URL.createObjectURL: the registry with one more URL, not yet revoked.
createObjectURL(reg, url) == reg @@ (url :> 0)

\* How many times revokePreviewUrls(items) revokes url: once for every
\* non-empty originalUrl or stampedUrl equal to it.
RevokeCount(items, url) ==
    Cardinality({ j \in DOMAIN items : items[j].originalUrl = url })
    + Cardinality({ j \in DOMAIN items : items[j].stampedUrl = url })

revokePreviewUrls(reg, items) ==
    [url \in DOMAIN reg |-> reg[url] + RevokeCount(items, url)]

\* -------------------------------------------------------------- renderAll
\* The three shapes of PreviewItem that renderAll pushes.  file is the name,
\* i the 0-based loop index.
LoadErrorItem(file, i, originalUrl) ==
    [id |-> <<file, i>>, name |-> file, originalUrl |-> originalUrl,
     stampedUrl |-> NoUrl, stampedBlob |-> "null", label |-> <<>>,
     error |-> "load failed"]

CanvasErrorItem(file, i, originalUrl) ==
    [id |-> <<file, i>>, name |-> file, originalUrl |-> originalUrl,
     stampedUrl |-> NoUrl, stampedBlob |-> "null", label |-> <<>>,
     error |-> "canvas failed"]

\* The decoded image of a file: its natural size and its layout size.
ImageOf(file) ==
    IF file = <<"a", "2", ".", "p">>
    THEN [naturalWidth |-> 4, naturalHeight |-> 2, width |-> 4, height |-> 2]
    ELSE [naturalWidth |-> 2, naturalHeight |-> 3, width |-> 2, height |-> 3]

\* a || b on numbers: b when a is 0.
Or(a, b) == IF a # 0 THEN a ELSE b

\* A rectangle as tall as the canvas is wide.
DrawImageRectSwapped(width, height) ==
    [x |-> 0, y |-> 0, w |-> height, h |-> width]

\* ctx.drawImage(img, 0, 0, canvas.width, canvas.height): the rectangle drawn.
DrawImageRect(width, height) == [x |-> 0, y |-> 0, w |-> width, h |-> height]

\* canvas.width = img.naturalWidth || img.width, the same for the height,
\* and the image drawn on it.
Canvas(img) ==
    LET width == Or(img.naturalWidth, img.width)
        height == Or(img.naturalHeight, img.height)
    IN  [width |-> width, height |-> height,
         drawn |-> DrawImageRect(width, height)]

\* No canvas: the run is not between getContext and canvasToBlob.
NoCanvas == [width |-> 0, height |-> 0, drawn |-> DrawImageRect(0, 0)]

\* The callback resolving with whatever toBlob yields.
canvasToBlobNullable(outcome) == IF outcome = "blob" THEN "blob" ELSE "null"

\* canvasToBlob: the blob toBlob yields, or an empty Blob in place of null.
canvasToBlob(outcome) == IF outcome = "blob" THEN "blob" ELSE "empty blob"

StampedItem(file, i, originalUrl, stampedUrl, blob, label) ==
    [id |-> <<file, i>>, name |-> file, originalUrl |-> originalUrl,
     stampedUrl |-> stampedUrl, stampedBlob |-> blob, label |-> label,
     error |-> "undefined"]

\* A number that counts only the items stamped so far.
SequenceNumberOfStamped(run, i) ==
    run.startNumber
    + Cardinality({ j \in DOMAIN run.next : run.next[j].error = "undefined" })

\* const num = startNumber + i, from the settings the run closed over.
SequenceNumber(run, i) == run.startNumber + i

\* const label = `${prefix}${padNumber(num, digits)}`
Label(run, i) == run.prefix \o padNumber(SequenceNumber(run, i), run.digits)

\* next.push(item)
PushUnlessFailed(next, item) ==
    IF item.error = "undefined" THEN Append(next, item) ELSE next

Push(next, item) == Append(next, item)

\* The loop condition i < sortedFiles.length after i++.
LoopContinuesShort(run, i) == i < Len(run.sortedFiles) - 1

LoopContinues(run, i) == i < Len(run.sortedFiles)

\* The top of loop iteration i of run r up to the await in fileToImage: the
\* run creates the original-image URL, then fileToImage creates its own.
BeginIteration(reg, r, i) ==
    createObjectURL(createObjectURL(reg, <<r, i, "original">>),
                    <<r, i, "decode">>)

\* The synchronous start of renderAll for the sorted list sorted, called from
\* a render whose state is the current one.
StartRun(sorted) ==
    LET r == Len(runs) + 1
    IN  /\ Len(runs) < MaxRuns
        /\ sorted # <<>>
        /\ previews' = <<>>
        /\ isRendering' = TRUE
        /\ progress' = [done |-> 0, total |-> Len(sorted)]
        /\ urls' = BeginIteration(revokePreviewUrls(urls, previews), r, 0)
        /\ runs' = Append(runs,
              [sortedFiles |-> sorted, prefix |-> prefix,
               startNumber |-> startNumber, digits |-> digits,
               i |-> 0, pc |-> "decode", next |-> <<>>, canvas |-> NoCanvas])

\* The end of one loop iteration of run r after item was built (reg is the
\* registry at that point): push, setProgress, then either the top of the
\* next iteration or setPreviews(next) and the finally block, after which
\* the local list next is gone.
EndIteration(r, item, reg) ==
    LET run == runs[r]
        next == Push(run.next, item)
        i == run.i + 1
    IN  /\ progress' = [progress EXCEPT !.done = i]
        /\ IF LoopContinues(run, i)
           THEN /\ urls' = BeginIteration(reg, r, i)
                /\ runs' = [runs EXCEPT ![r] =
                      [run EXCEPT !.next = next, !.i = i, !.pc = "decode",
                                  !.canvas = NoCanvas]]
                /\ UNCHANGED <<previews, isRendering>>
           ELSE /\ urls' = reg
                /\ runs' = [runs EXCEPT ![r] =
                      [run EXCEPT !.next = <<>>, !.i = i, !.pc = "done",
                                  !.canvas = NoCanvas]]
                /\ previews' = next
                /\ isRendering' = FALSE

\* useEffect on [files] after onPickFiles stored a non-empty list.
PickFiles(list) ==
    /\ files' = list
    /\ StartRun(sortedFiles(list))
    /\ UNCHANGED <<settings, outputFormat, zip, cmp>>

\* The regenerate button, disabled={!files.length || isRendering}.
Regenerate ==
    /\ files # <<>>
    /\ ~isRendering
    /\ StartRun(sortedFiles(files))
    /\ UNCHANGED <<files, settings, outputFormat, zip, cmp>>

\* fileToImage settles for run r: the image loaded, it failed to load, or it
\* loaded and getContext("2d") returned null.
DecodeSettles(r, outcome) ==
    LET run == runs[r]
        file == run.sortedFiles[run.i + 1]
        originalUrl == <<r, run.i, "original">>
    IN  /\ run.pc = "decode"
        /\ CASE outcome = "error" ->
                  EndIteration(r, LoadErrorItem(file, run.i, originalUrl), urls)
             [] outcome = "noctx" ->
                  EndIteration(r, CanvasErrorItem(file, run.i, originalUrl), urls)
             [] OTHER ->
                  /\ runs' = [runs EXCEPT ![r].pc = "encode",
                                           ![r].canvas = Canvas(ImageOf(file))]
                  /\ UNCHANGED <<previews, isRendering, progress, urls>>
        /\ UNCHANGED <<files, settings, outputFormat, zip, cmp>>

\* canvasToBlob settles for run r.
EncodeSettles(r, outcome) ==
    LET run == runs[r]
        file == run.sortedFiles[run.i + 1]
        stampedUrl == <<r, run.i, "stamped">>
        item == StampedItem(file, run.i, <<r, run.i, "original">>, stampedUrl,
                            canvasToBlob(outcome), Label(run, run.i))
    IN  /\ run.pc = "encode"
        /\ EndIteration(r, item, createObjectURL(urls, stampedUrl))
        /\ UNCHANGED <<files, settings, outputFormat, zip, cmp>>

\* The reset button, disabled={!files.length && !previews.length}.
resetAll ==
    /\ files # <<>> \/ previews # <<>>
    /\ urls' = revokePreviewUrls(urls, previews)
    /\ files' = <<>>
    /\ previews' = <<>>
    /\ progress' = [done |-> 0, total |-> 0]
    /\ UNCHANGED <<isRendering, settings, runs, outputFormat, zip, cmp>>

\* onChange of the start-number field: Number(e.target.value || 1).
SetStartNumber(v) ==
    /\ startNumber # v
    /\ startNumber' = v
    /\ UNCHANGED <<files, previews, isRendering, progress, prefix, digits,
                   runs, urls, outputFormat, zip, cmp>>

\* p.name.replace(/\.[^.]+$/, ""): the name without its last extension, when
\* the last dot is followed by at least one character.
LastDot(name) ==
    IF \E k \in DOMAIN name : name[k] = "."
    THEN CHOOSE k \in DOMAIN name :
            name[k] = "." /\ \A m \in (k + 1)..Len(name) : name[m] # "."
    ELSE 0

BaseName(name) ==
    LET k == LastDot(name)
    IN  IF k > 0 /\ k < Len(name) THEN SubSeq(name, 1, k - 1) ELSE name

\* const ext = outputFormat === "jpeg" ? "jpg" : "png"
Extension(format) ==
    IF format = "jpeg" THEN <<"j", "p", "g">> ELSE <<"p", "n", "g">>

\* previews.filter((p) => p.stampedBlob): null is the only falsy value.
ValidItems(items) == SelectSeq(items, LAMBDA p : p.stampedBlob # "null")

\* An index that counts every previewed item, stamped or not.
ExportIndexInPreviews(items, idx) ==
    CHOOSE j \in DOMAIN items :
        /\ items[j].stampedBlob # "null"
        /\ Cardinality({ m \in 1..j : items[m].stampedBlob # "null" }) = idx

\* idx of valid.forEach((p, idx) => ...), 1-based: the position among the
\* items that passed the filter.
ExportIndex(items, idx) == idx

\* const fileName = `${n}_${base}.${ext}` with
\* n = padNumber(startNumber + idx, digits), idx 0-based.
FileName(p, idx) ==
    padNumber(startNumber + (ExportIndex(previews, idx) - 1), digits)
    \o <<"_">> \o BaseName(p.name) \o <<".">> \o Extension(outputFormat)

\* The entries valid.forEach hands to zip.file.
ZipEntries ==
    LET valid == ValidItems(previews)
    IN  [idx \in DOMAIN valid |->
            [fileName |-> FileName(valid[idx], idx),
             data |-> valid[idx].stampedBlob]]

\* The download button, disabled={!previews.length || isRendering}.
downloadZip ==
    /\ previews # <<>>
    /\ ~isRendering
    /\ ValidItems(previews) # <<>>
    /\ zip' = ZipEntries
    /\ UNCHANGED <<files, previews, isRendering, progress, settings, runs, urls,
                   outputFormat, cmp>>

Next ==
    \/ \E list \in Picks : PickFiles(list)
    \/ Regenerate
    \/ \E r \in DOMAIN runs : \E o \in DecodeOutcomes : DecodeSettles(r, o)
    \/ \E r \in DOMAIN runs : \E o \in EncodeOutcomes : EncodeSettles(r, o)
    \/ resetAll
    \/ \E v \in StartNumberInputs : SetStartNumber(v)
    \/ downloadZip

Spec == Init /\ [][Next]_vars

\* ------------------------------------------------- naturalCompare on its own
InitCompare ==
    /\ InitApp
    /\ cmp \in { [a |-> x, b |-> y, result |-> 0, called |-> FALSE] :
                    x \in CompareNames, y \in CompareNames }

Compare ==
    /\ ~cmp.called
    /\ cmp' = [cmp EXCEPT !.result = naturalCompare(cmp.a, cmp.b),
                          !.called = TRUE]
    /\ UNCHANGED <<files, previews, isRendering, progress, settings, runs, urls,
                   outputFormat, zip>>

NextCompare == Compare

SpecCompare == InitCompare /\ [][NextCompare]_vars

\* ------------------------------------- naturalCompare on three names at once
InitOrder ==
    /\ InitApp
    /\ cmp \in { [a |-> x, b |-> y, c |-> z, called |-> FALSE,
                   aa |-> 0, ab |-> 0, ba |-> 0, bc |-> 0, ac |-> 0,
                   sorted |-> <<>>] :
                    x \in OrderNames, y \in OrderNames, z \in OrderNames }

\* Every comparison among a, b and c, and the sorted copy of [a, b].
CompareOrder ==
    /\ ~cmp.called
    /\ cmp' = [cmp EXCEPT !.aa = naturalCompare(cmp.a, cmp.a),
                          !.ab = naturalCompare(cmp.a, cmp.b),
                          !.ba = naturalCompare(cmp.b, cmp.a),
                          !.bc = naturalCompare(cmp.b, cmp.c),
                          !.ac = naturalCompare(cmp.a, cmp.c),
                          !.sorted = sortedFiles(<<cmp.a, cmp.b>>),
                          !.called = TRUE]
    /\ UNCHANGED <<files, previews, isRendering, progress, settings, runs, urls,
                   outputFormat, zip>>

NextOrder == CompareOrder

SpecOrder == InitOrder /\ [][NextOrder]_vars

\* ------------------------------------------------------------- properties
Sign(x) == IF x < 0 THEN -1 ELSE IF x > 0 THEN 1 ELSE 0

AllDigits(s) == \A k \in DOMAIN s : IsDigit(s[k])

\* The value of a digit string, most significant digit first.
DecimalValue(s) ==
    LET RECURSIVE Pow10(_)
        Pow10(e) == IF e = 0 THEN 1 ELSE 10 * Pow10(e - 1)
        RECURSIVE Sum(_)
        Sum(k) == IF k = 0 THEN 0
                  ELSE Sum(k - 1) + DigitVal(s[k]) * Pow10(Len(s) - k)
    IN  Sum(Len(s))

\* a and b share their first p and last q characters and differ only in the
\* digit run between them; the run is bounded by non-digits.
DiffersInDigitRun(a, b, p, q) ==
    /\ p + q < Len(a)
    /\ p + q < Len(b)
    /\ SubSeq(a, 1, p) = SubSeq(b, 1, p)
    /\ SubSeq(a, Len(a) - q + 1, Len(a)) = SubSeq(b, Len(b) - q + 1, Len(b))
    /\ AllDigits(SubSeq(a, p + 1, Len(a) - q))
    /\ AllDigits(SubSeq(b, p + 1, Len(b) - q))
    /\ p > 0 => ~IsDigit(a[p])
    /\ q > 0 => ~IsDigit(a[Len(a) - q + 1])

Img(n) == <<"i", "m", "g">> \o n \o <<".", "p", "n", "g">>

\* C1: two names that differ only in one run of digits are ordered by the
\* integer value of that run, and sorting img2.png, img10.png, img1.png
\* yields img1.png, img2.png, img10.png.
C1_NaturalOrder ==
    /\ cmp.called =>
         \A p, q \in 0..Len(cmp.a) :
            DiffersInDigitRun(cmp.a, cmp.b, p, q) =>
               Sign(cmp.result) =
                  Sign(DecimalValue(SubSeq(cmp.a, p + 1, Len(cmp.a) - q))
                       - DecimalValue(SubSeq(cmp.b, p + 1, Len(cmp.b) - q)))
    /\ sortedFiles(<<Img(<<"2">>), Img(<<"1", "0">>), Img(<<"1">>)>>)
         = <<Img(<<"1">>), Img(<<"2">>), Img(<<"1", "0">>)>>

C1_Witness ==
    /\ cmp.called
    /\ cmp.a = <<"a", "2">>
    /\ cmp.b = <<"a", "1", "2">>
    /\ cmp.result < 0

\* The run whose list is published in previews: every item carries the
\* original-image URL its run created.
PublishedRun == previews[1].originalUrl[1]

\* Every item a run has pushed so far or that is published, with the run
\* that built it and its 0-based position in its list.
Cells ==
    UNION { { [run |-> r, pos |-> j - 1, item |-> runs[r].next[j]] :
                j \in DOMAIN runs[r].next } : r \in DOMAIN runs }
    \cup { [run |-> PublishedRun, pos |-> j - 1, item |-> previews[j]] :
              j \in DOMAIN previews }

Stamped(item) == item.error = "undefined"

\* C2: every label is the prefix followed by the decimal rendering of
\* n = startNumber + position with no sign character, left-padded with "0"
\* to at least digits characters and never truncated.
C2_LabelFormat ==
    \A c \in Cells :
        Stamped(c.item) =>
            LET run == runs[c.run]
                n == run.startNumber + c.pos
                k == Len(run.prefix)
                body == SubSeq(c.item.label, k + 1, Len(c.item.label))
            IN  /\ SubSeq(c.item.label, 1, k) = run.prefix
                /\ AllDigits(body)
                /\ DecimalValue(body) = n
                /\ Len(body) >= run.digits
                /\ Len(body) > run.digits => body[1] # "0"

\* C3: the item at post-sort position i carries sequence number
\* startNumber + i, whether or not earlier items failed (the run produces one
\* rendition per item, so there is no second rendition to disagree with).
C3_SequenceByPosition ==
    \A c \in Cells :
        Stamped(c.item) =>
            c.item.label =
                runs[c.run].prefix
                \o padNumber(runs[c.run].startNumber + c.pos, runs[c.run].digits)

C3_Witness ==
    \E c, d \in Cells :
        /\ c.run = d.run
        /\ d.pos < c.pos
        /\ ~Stamped(d.item)
        /\ Stamped(c.item)
        /\ runs[c.run].startNumber = 1

\* One output rendition per source: total is sortedFiles.length.
NumSpecs == 1

\* C4: the published collection of a completed run has exactly m*k items,
\* one for each source, none missing and none repeated.
C4_CellAccounting ==
    previews # <<>> =>
        LET run == runs[PublishedRun]
        IN  /\ run.pc = "done"
            /\ Len(previews) = Len(run.sortedFiles) * NumSpecs
            /\ \A j \in DOMAIN run.sortedFiles :
                  /\ j \in DOMAIN previews
                  /\ previews[j].name = run.sortedFiles[j]
                  /\ previews[j].id = <<run.sortedFiles[j], j - 1>>
            /\ Cardinality({ previews[j].id : j \in DOMAIN previews })
                  = Len(previews)

C4_Witness ==
    /\ Len(previews) = 2
    /\ Len(runs[PublishedRun].sortedFiles) = 2
    /\ \E j \in DOMAIN previews : ~Stamped(previews[j])

\* C5: 0 <= done <= total in every state; done changes only to 0 or by +1,
\* and equals total when a run completes.
C5_Progress ==
    [][ /\ 0 <= progress'.done
        /\ progress'.done <= progress'.total
        /\ progress'.done # progress.done =>
              progress'.done = 0 \/ progress'.done = progress.done + 1
        /\ \A r \in DOMAIN runs :
              runs[r].pc # "done" /\ runs'[r].pc = "done" =>
                  progress'.done = progress'.total ]_vars

\* C6: when a source fails to decode the run still completes, that source
\* has an error item, and every other source has the item (name, id, label,
\* success status) of a run in which nothing failed.
C6_ErrorIsolation ==
    previews # <<>> =>
        LET run == runs[PublishedRun]
        IN  /\ Len(previews) = Len(run.sortedFiles)
            /\ \A j \in DOMAIN previews :
                  LET item == previews[j]
                      file == run.sortedFiles[j]
                  IN  /\ item.name = file
                      /\ item.id = <<file, j - 1>>
                      /\ item.error = "load failed" =>
                            item.stampedBlob = "null" /\ item.label = <<>>
                      /\ item.error \notin {"load failed", "canvas failed"} =>
                            /\ item.error = "undefined"
                            /\ item.stampedBlob # "null"
                            /\ item.label =
                                 run.prefix
                                 \o padNumber(run.startNumber + j - 1, run.digits)

C6_Witness ==
    /\ Len(previews) = 2
    /\ previews[1].error = "load failed"
    /\ Stamped(previews[2])
    /\ previews[2].stampedBlob = "blob"

\* C7: every published item has exactly one of stampedBlob and error.
C7_BlobXorError ==
    \A j \in DOMAIN previews :
        (previews[j].stampedBlob # "null") <=> (previews[j].error = "undefined")

C7_Witness ==
    /\ \E j \in DOMAIN previews : previews[j].stampedBlob = "empty blob"
    /\ \E j \in DOMAIN previews : previews[j].error = "canvas failed"

InFlight == { r \in DOMAIN runs : runs[r].pc # "done" }

\* C8: at most one run is in flight at any time.
C8_SingleRunInFlight == Cardinality(InFlight) <= 1

\* C9: once a newer run has started, no step of an earlier run changes the
\* visible progress or the published previews.
C9_NoStaleUpdates ==
    [][ \A r \in DOMAIN runs :
            r < Len(runs) /\ runs'[r] # runs[r] =>
                progress' = progress /\ previews' = previews ]_vars

\* C10: once nothing is in flight, every object URL created by a superseded
\* run has been revoked exactly once.
C10_UrlsRevokedOnce ==
    InFlight = {} =>
        \A url \in DOMAIN urls : url[1] < Len(runs) => urls[url] = 1

\* C11: after resetAll no object URL created so far is left unrevoked.
C11_ResetRevokesAll ==
    [][ resetAll => \A url \in DOMAIN urls' : urls'[url] >= 1 ]_vars

\* The runs that hold a drawn canvas, waiting for canvasToBlob.
Drawing == { r \in DOMAIN runs : runs[r].pc = "encode" }

SourceOf(r) == ImageOf(runs[r].sortedFiles[runs[r].i + 1])

\* The drawn rectangle lies inside the surface, with equal margins left and
\* right and top and bottom, and has the aspect ratio of the source.
FitsCentred(c, img) ==
    /\ c.drawn.x >= 0 /\ c.drawn.y >= 0
    /\ c.drawn.x + c.drawn.w <= c.width
    /\ c.drawn.y + c.drawn.h <= c.height
    /\ c.drawn.x = c.width - (c.drawn.x + c.drawn.w)
    /\ c.drawn.y = c.height - (c.drawn.y + c.drawn.h)
    /\ c.drawn.w * img.naturalHeight = c.drawn.h * img.naturalWidth

\* The two output specifications of the reference configuration.
OutputSpecs ==
    { [width |-> 1920, height |-> 1080], [width |-> 500, height |-> 750] }

NamingRules ==
    { [prefix |-> <<"l", "_">>, tag |-> <<"l">>],
      [prefix |-> <<"p", "_">>, tag |-> <<"p">>],
      [prefix |-> <<>>, tag |-> <<>>] }

PushedItem(r) ==
    LET list == IF runs'[r].pc = "done" THEN previews' ELSE runs'[r].next
    IN  list[Len(list)]

\* C14: when toBlob yields no blob the item pushed has its error populated
\* and no encoded output, the run goes on, and no archive entry holds the
\* output of a failed encoding.
C14_EncodeFailureIsError ==
    [][ /\ \A r \in DOMAIN runs :
              EncodeSettles(r, "null") =>
                  /\ PushedItem(r).error # "undefined"
                  /\ PushedItem(r).stampedBlob = "null"
                  /\ runs'[r].pc \in {"decode", "done"}
        /\ downloadZip =>
              \A idx \in DOMAIN zip' : zip'[idx].data # "empty blob" ]_vars

\* A decimal number with an optional sign, as padNumber writes it.
ParseNumber(s) ==
    IF s # <<>> /\ s[1] = "-" THEN 0 - DecimalValue(Tail(s)) ELSE DecimalValue(s)

\* The number in front of the first "_" of an export file name.
FileNumber(fileName) ==
    LET k == CHOOSE k \in DOMAIN fileName :
                fileName[k] = "_" /\ \A m \in 1..(k - 1) : fileName[m] # "_"
    IN  ParseNumber(SubSeq(fileName, 1, k - 1))

\* The number stamped on an item: its label after the prefix of its run.
LabelNumber(p) ==
    ParseNumber(SubSeq(p.label, Len(runs[p.originalUrl[1]].prefix) + 1,
                       Len(p.label)))

\* C16: the number in the file name of every archive entry equals the
\* sequence number in the stamped label of its item.
C16_FileNumberIsLabelNumber ==
    [][ downloadZip =>
          \A idx \in DOMAIN zip' :
             FileNumber(zip'[idx].fileName)
                = LabelNumber(ValidItems(previews)[idx]) ]_vars

\* C17: isRendering is true whenever a run is in flight, so the download
\* button is never enabled while a run can still replace previews.
C17_RenderingWhileInFlight ==
    /\ InFlight # {} => isRendering
    /\ previews # <<>> /\ ~isRendering => InFlight = {}

\* C18: while no files are picked (initially and after resetAll) previews is
\* empty and progress is 0/0.
C18_EmptyAfterReset ==
    files = <<>> =>
        previews = <<>> /\ progress = [done |-> 0, total |-> 0]

\* The token list of a is a strict prefix of the token list of b.
StrictTokenPrefix(a, b) ==
    /\ Len(Tokens(a)) < Len(Tokens(b))
    /\ SubSeq(Tokens(b), 1, Len(Tokens(a))) = Tokens(a)

\* C15: naturalCompare is a consistent ordering (compare(a,a) = 0, the sign
\* flips with the arguments, the order is transitive), names that compare
\* equal keep their input order in sortedFiles, and a name whose token list
\* is a strict prefix of another's sorts first.
C15_ConsistentOrder ==
    cmp.called =>
        /\ cmp.aa = 0
        /\ Sign(cmp.ab) = 0 - Sign(cmp.ba)
        /\ cmp.ab <= 0 /\ cmp.bc <= 0 => cmp.ac <= 0
        /\ cmp.ab = 0 => cmp.sorted = <<cmp.a, cmp.b>>
        /\ StrictTokenPrefix(cmp.a, cmp.b) => cmp.ab < 0

====
